---- MODULE Spec2Model ----
(***************************************************************************)
(* Model of the popup controller of src/scripts/popup.js: class            *)
(* ExtensionManager, the chrome.management platform it talks to, and the   *)
(* localStorage entry that persists the "disabled by us" identifiers.      *)
(*                                                                         *)
(* Strings are sequences of one-character strings, so that join(",") and   *)
(* split(",") are computed character by character.                         *)
(***************************************************************************)
EXTENDS Integers, Sequences, FiniteSets, TLC

\* ------------------------------------------------------------------ bounds
MaxHeaderClicks == 2
MaxItemClicks == 1
MaxExternal == 1
MaxStored == 2
MaxInputs == 2
MaxIdLen == 2
MaxSetSize == 3
MaxListLen == 3
MaxIcons == 3

\* --------------------------------------------------------------- constants
maxIconSize == 64
partition == FALSE

Comma == ","
Null == <<"<null>">>

RuntimeId == <<"s">>
ExtIds == {<<"a">>, <<"t">>}
Ids == ExtIds \cup {RuntimeId}
Types == {"extension", "theme"}

\* the exclude-type sets the synced configuration may yield
ExcludeTypes == {{}, {"theme"}}

TypeOf(id) == IF id = <<"t">> THEN "theme" ELSE "extension"

NameOf(id) ==
    CASE id = <<"a">> -> <<"B", "a">>
      [] id = <<"t">> -> <<"a", "b">>
      [] OTHER -> <<"b">>

\* item.icons of the installed records, as [size, url]
Icon(size, url) == [size |-> size, url |-> url]

IconsOf(id) ==
    CASE id = <<"a">> -> <<Icon(16, 1), Icon(48, 2), Icon(128, 3)>>
      [] id = <<"t">> -> <<>>
      [] OTHER -> <<Icon(128, 1)>>

\* ----------------------------------------------------------------- helpers
Range(s) == {s[i] : i \in 1..Len(s)}

NoDup(s) == \A i, j \in 1..Len(s) : i # j => s[i] # s[j]

SeqsUpTo(S, n) == UNION {[1..k -> S] : k \in 0..n}

\* Set.prototype.add on an insertion-ordered Set
SetAdd(set, id) == IF id \in Range(set) THEN set ELSE Append(set, id)

RECURSIVE AddAll(_, _)
AddAll(set, list) ==
    IF list = <<>> THEN set ELSE AddAll(SetAdd(set, Head(list)), Tail(list))

\* Set.prototype.clear
clear_keep(set) == set

clear(set) == <<>>

\* Array.prototype.join(",")
RECURSIVE join_nosep(_)
join_nosep(list) ==
    IF list = <<>> THEN <<>> ELSE list[1] \o join_nosep(Tail(list))

RECURSIVE join(_)
join(list) ==
    IF list = <<>> THEN <<>>
    ELSE IF Len(list) = 1 THEN list[1]
    ELSE list[1] \o <<Comma>> \o join(Tail(list))

\* String.prototype.split(","): the pieces between the commas
RECURSIVE splitFrom(_, _)
splitFrom(cur, rest) ==
    IF rest = <<>> THEN <<cur>>
    ELSE IF Head(rest) = Comma THEN <<cur>> \o splitFrom(<<>>, Tail(rest))
    ELSE splitFrom(Append(cur, Head(rest)), Tail(rest))

split(data) == splitFrom(<<>>, data)

\* readFromLocal: the set after adding what the stored string holds
readFromLocal(set, stored) ==
    LET data == stored
        list == IF data # Null /\ data # <<>> THEN split(data) ELSE <<>>
    IN AddAll(set, list)

\* writeToLocal: the string stored for the set
writeToLocal(set) == join(set)

\* what a fresh controller would load from the stored value
Decode(stored) == Range(readFromLocal(<<>>, stored))

\* --------------------------------------------- String.localeCompare("en-US")
Lower(c) == IF c = "A" THEN "a" ELSE IF c = "B" THEN "b" ELSE c
Rank(c) == IF c = "a" THEN 1 ELSE 2
IsUpper(c) == c \in {"A", "B"}

RECURSIVE primaryCompare(_, _)
primaryCompare(x, y) ==
    IF x = <<>> /\ y = <<>> THEN 0
    ELSE IF x = <<>> THEN -1
    ELSE IF y = <<>> THEN 1
    ELSE IF Rank(Lower(Head(x))) < Rank(Lower(Head(y))) THEN -1
    ELSE IF Rank(Lower(Head(x))) > Rank(Lower(Head(y))) THEN 1
    ELSE primaryCompare(Tail(x), Tail(y))

RECURSIVE caseCompare(_, _)
caseCompare(x, y) ==
    IF x = <<>> \/ y = <<>> THEN 0
    ELSE IF IsUpper(Head(x)) = IsUpper(Head(y)) THEN caseCompare(Tail(x), Tail(y))
    ELSE IF IsUpper(Head(x)) THEN 1 ELSE -1

localeCompare(x, y) ==
    IF primaryCompare(x, y) # 0 THEN primaryCompare(x, y) ELSE caseCompare(x, y)

defSortFunction(prev, next) == localeCompare(prev.name, next.name)

\* Array.prototype.sort(cmp): stable
RECURSIVE insertSorted(_, _)
insertSorted(sorted, item) ==
    IF sorted = <<>> THEN <<item>>
    ELSE IF defSortFunction(Head(sorted), item) <= 0
         THEN <<Head(sorted)>> \o insertSorted(Tail(sorted), item)
         ELSE <<item>> \o sorted

RECURSIVE sort(_)
sort(list) ==
    IF list = <<>> THEN <<>>
    ELSE insertSorted(sort(SubSeq(list, 1, Len(list) - 1)), list[Len(list)])

sortByASCII_unsortedTail(list, part) ==
    IF part
    THEN LET isEnabled(item) == item.enabled
             isDisabled(item) == ~item.enabled
         IN sort(SelectSeq(list, isEnabled)) \o SelectSeq(list, isDisabled)
    ELSE sort(list)

sortByASCII(list, part) ==
    IF part
    THEN LET isEnabled(item) == item.enabled
             isDisabled(item) == ~item.enabled
         IN sort(SelectSeq(list, isEnabled)) \o sort(SelectSeq(list, isDisabled))
    ELSE sort(list)

\* ------------------------------------------------------------------- state
VARIABLES
    management,      \* chrome.management: id -> "absent" | "on" | "off"
    excludeType,     \* this.excludeType
    eidDisabledSet,  \* this.eidDisabledSet, in insertion order
    localStorage,    \* localStorage[Config.deiKey], Null when never written
    h1Text,          \* this.nodes.h1.textContent, "" before the first render
    ulItems,         \* this.nodes.ul.children with their allExtIdMap records
    calls,           \* chrome.management calls the platform has not served yet
    inbox,           \* callbacks and notifications the popup has yet to run (FIFO)
    seq,             \* number of handler runs that issued platform calls
    nHeader,         \* header activations so far
    nItem,           \* list-item activations so far
    nExternal,       \* changes made outside the popup so far
    requested,       \* history: ids each oneKeyDisable run asked to disable
    activeElement,   \* document.activeElement as an index of [h1, ...li], -1 for none
    probe,           \* a function called on its own: its argument and its result
    written,         \* history: the oneKeyDisable runs that called writeToLocal
    roundTrip,       \* history: a oneKeyDisable / oneKeyRestore pair being followed
    last             \* history: what the step just taken did

vars == <<management, excludeType, eidDisabledSet, localStorage, h1Text, ulItems,
          calls, inbox, seq, nHeader, nItem, nExternal, activeElement, probe,
          requested, written, roundTrip, last>>

NoId == <<>>
NoProbe == [arg |-> <<>>, flag |-> FALSE, result |-> <<>>]
NoSnap == [id \in Ids |-> "absent"]
MaxSeq == MaxHeaderClicks + MaxItemClicks + MaxExternal + 1

Item(id, st) ==
    [id |-> id, name |-> NameOf(id), enabled |-> (st = "on"), icons |-> IconsOf(id)]

Call(api, kind, id, enabled, tailId, n) ==
    [api |-> api, kind |-> kind, id |-> id, enabled |-> enabled, tailId |-> tailId, n |-> n]

Reply(c, snap, ok) ==
    [type |-> "reply", api |-> c.api, kind |-> c.kind, id |-> c.id,
     tailId |-> c.tailId, n |-> c.n, snap |-> snap, ok |-> ok]

Event(type, id, enabled) ==
    [type |-> type, id |-> id, enabled |-> enabled, icons |-> IconsOf(id)]

\* history of a controller step: the handler, its run number, the set and the
\* header before it, the records it was handed, the setEnabled calls it made,
\* whether it called writeToLocal, whether it threw
Did(op, n, list, reqs, wrote, threw) ==
    [op |-> op, n |-> n, pre |-> Range(eidDisabledSet), h1 |-> h1Text,
     list |-> Range(list), reqs |-> reqs, wrote |-> wrote, threw |-> threw,
     offset |-> 0]

\* history of any other step
Step(op) ==
    [op |-> op, n |-> 0, pre |-> {}, h1 |-> "", list |-> {}, reqs |-> {},
     wrote |-> FALSE, threw |-> FALSE, offset |-> 0]

\* no call or callback of a oneKeyDisable run is outstanding
DisableQuiet ==
    /\ \A c \in calls : c.kind # "oneKeyDisable"
    /\ \A i \in 1..Len(inbox) : inbox[i].type = "reply" => inbox[i].kind # "oneKeyDisable"

\* nothing the popup asked of the platform is outstanding
Quiet ==
    /\ \A c \in calls : c.kind = "renderExtensions"
    /\ \A i \in 1..Len(inbox) : inbox[i].type = "reply" => inbox[i].kind = "renderExtensions"

NotFollowed(phase) == [phase |-> phase, before |-> NoSnap]

\* the pair followed: the first header activation when it starts a
\* oneKeyDisable with an empty set and no item was activated before, then a
\* second one that starts oneKeyRestore once every completion was delivered;
\* any other input in between ends it
roundTripOnHeader ==
    IF roundTrip.phase = "idle" /\ nHeader = 0 /\ nItem = 0 /\ Len(eidDisabledSet) = 0
    THEN [phase |-> "disable", before |-> management]
    ELSE IF roundTrip.phase = "disable" /\ DisableQuiet /\ Len(eidDisabledSet) # 0
    THEN [roundTrip EXCEPT !.phase = "restore"]
    ELSE NotFollowed("off")

roundTripOnOther ==
    IF roundTrip.phase \in {"disable", "restore"} THEN NotFollowed("off") ELSE roundTrip

\* the run may take another input (a click, a change outside the popup)
MoreInputs == nHeader + nItem + nExternal < MaxInputs

\* the message the popup runs next
msg == Head(inbox)

\* the lists chrome.management.getAll may hand over for a snapshot: the
\* installed records in any enumeration order
ListsOf(snap) ==
    LET inst == {id \in Ids : snap[id] # "absent"}
    IN {[i \in 1..Len(l) |-> Item(l[i], snap[l[i]])] :
          l \in {q \in [1..Cardinality(inst) -> inst] : NoDup(q)}}

\* chrome.i18n.getMessage keys shown in the header
OneKeyRestore == "one_key_restore"
OneKeyDisable == "one_key_disable"

\* stored values the popup may find at startup
InitialStorage ==
    {Null} \cup {join(q) : q \in {r \in SeqsUpTo(Ids, MaxStored) : NoDup(r)}}

\* constructor, the chrome.storage.sync.get callback and init(): the set is
\* loaded, the first renderExtensions has called getAll, listeners are added
Init ==
    /\ management \in {m \in [Ids -> {"absent", "on", "off"}] : m[RuntimeId] = "on"}
    /\ excludeType \in ExcludeTypes
    /\ localStorage \in InitialStorage
    /\ eidDisabledSet = readFromLocal(<<>>, localStorage)
    /\ h1Text = ""
    /\ ulItems = <<>>
    /\ calls = {Call("getAll", "renderExtensions", NoId, FALSE, NoId, 1)}
    /\ inbox = <<>>
    /\ seq = 1
    /\ nHeader = 0
    /\ nItem = 0
    /\ nExternal = 0
    /\ activeElement = -1
    /\ probe = NoProbe
    /\ requested = [n \in 1..MaxSeq |-> {}]
    /\ written = {}
    /\ roundTrip = NotFollowed("idle")
    /\ last = Step("init")

\* ------------------------------------------------------------ the platform
ServeGetAll(c) ==
    /\ c \in calls /\ c.api = "getAll"
    /\ calls' = calls \ {c}
    /\ inbox' = Append(inbox, Reply(c, management, TRUE))
    /\ last' = Step("platform")
    /\ UNCHANGED <<management, excludeType, eidDisabledSet, localStorage, h1Text,
                   ulItems, seq, nHeader, nItem, nExternal, requested, roundTrip,
                   activeElement, probe, written>>

ServeGet(c) ==
    /\ c \in calls /\ c.api = "get"
    /\ calls' = calls \ {c}
    /\ inbox' = Append(inbox, Reply(c, management, management[c.id] # "absent"))
    /\ last' = Step("platform")
    /\ UNCHANGED <<management, excludeType, eidDisabledSet, localStorage, h1Text,
                   ulItems, seq, nHeader, nItem, nExternal, requested, roundTrip,
                   activeElement, probe, written>>

\* chrome.management.setEnabled: an unknown id fails (runtime.lastError) and the
\* callback, when one was given, is still called; a change of state notifies
ServeSetEnabled(c) ==
    /\ c \in calls /\ c.api = "setEnabled"
    /\ calls' = calls \ {c}
    /\ LET ok == management[c.id] # "absent"
           to == IF c.enabled THEN "on" ELSE "off"
           changed == ok /\ management[c.id] # to
       IN /\ management' = IF changed THEN [management EXCEPT ![c.id] = to]
                           ELSE management
          /\ inbox' = inbox
                       \o (IF changed
                           THEN <<Event(IF c.enabled THEN "onEnabled" ELSE "onDisabled",
                                        c.id, c.enabled)>>
                           ELSE <<>>)
                       \o (IF c.kind = "oneKeyDisable"
                           THEN <<Reply(c, NoSnap, ok)>>
                           ELSE <<>>)
    /\ last' = Step("platform")
    /\ UNCHANGED <<excludeType, eidDisabledSet, localStorage, h1Text, ulItems, seq,
                   nHeader, nItem, nExternal, requested, roundTrip,
                   activeElement, probe, written>>

\* ----------------------------------------------------------- the controller
\* renderExtensions(): the call; the callback is renderExtensionsCallback
renderExtensionsCall == Call("getAll", "renderExtensions", NoId, FALSE, NoId, seq + 1)

\* the forEach test of renderExtensions (an item that is rendered)
Shown_self(item) == ~(TypeOf(item.id) \in excludeType)

Shown(item) == ~(item.id = RuntimeId \/ TypeOf(item.id) \in excludeType)

\* the for loop of renderExtensionState over restIcons
RECURSIVE pickIcon(_, _)
pickIcon(iconInfo, restIcons) ==
    IF restIcons = <<>> THEN iconInfo
    ELSE LET icon == Head(restIcons)
         IN pickIcon(IF icon.size > iconInfo.size /\ icon.size < maxIconSize
                     THEN Icon(icon.size, icon.url) ELSE iconInfo,
                     Tail(restIcons))

\* the iconInfo renderExtensionState ends with
iconInfoOf(id, icons) ==
    IF Len(icons) # 0
    THEN pickIcon(Icon(icons[1].size, icons[1].url), Tail(icons))
    ELSE Icon(32, <<"chrome://extension-icon", id, 32, 0>>)

\* renderExtensionState(li, item): what the li shows of the item (the title,
\* the data-enabled attribute and the grayscale flag all follow item.enabled)
renderExtensionState(li, item) ==
    [li EXCEPT !.enabled = item.enabled, !.icon = iconInfoOf(item.id, item.icons)]

\* the list items renderExtensions builds from a fetched list; id and
\* itemEnabled are the record allExtIdMap keeps for the li
renderedItems(list) ==
    LET shown == SelectSeq(sortByASCII(list, partition), Shown)
    IN [i \in 1..Len(shown) |->
          renderExtensionState([id |-> shown[i].id, itemEnabled |-> shown[i].enabled,
                                enabled |-> FALSE, icon |-> Icon(0, 0)],
                               shown[i])]

\* the header text renderExtensions chooses
headerLabel_fixed(set) == OneKeyDisable

headerLabel(set) == IF Len(set) # 0 THEN OneKeyRestore ELSE OneKeyDisable

renderExtensionsCallback ==
    /\ inbox # <<>>
    /\ msg.type = "reply" /\ msg.api = "getAll" /\ msg.kind = "renderExtensions"
    /\ \E list \in ListsOf(msg.snap) :
          /\ ulItems' = renderedItems(list)
          /\ last' = Did("renderExtensions", msg.n, list, {}, FALSE, FALSE)
    /\ h1Text' = headerLabel(eidDisabledSet)
    /\ activeElement' = -1
    /\ inbox' = Tail(inbox)
    /\ UNCHANGED <<management, excludeType, eidDisabledSet, localStorage, calls,
                   seq, nHeader, nItem, nExternal, requested, roundTrip,
                   probe, written>>

\* h1 click listener: oneKeyRestore() or oneKeyDisable(), both start with getAll
HeaderClick ==
    /\ h1Text # ""
    /\ nHeader < MaxHeaderClicks /\ MoreInputs
    /\ nHeader' = nHeader + 1
    /\ seq' = seq + 1
    /\ calls' = calls \cup
          {Call("getAll",
                IF Len(eidDisabledSet) # 0 THEN "oneKeyRestore" ELSE "oneKeyDisable",
                NoId, FALSE, NoId, seq + 1)}
    /\ roundTrip' = roundTripOnHeader
    /\ last' = Step("headerClick")
    /\ UNCHANGED <<management, excludeType, eidDisabledSet, localStorage, h1Text,
                   ulItems, inbox, nItem, nExternal, requested,
                   activeElement, probe, written>>

\* the filter of oneKeyDisable
DisableCandidate_any(item) ==
    item.id # RuntimeId /\ ~(TypeOf(item.id) \in excludeType)

DisableCandidate_allTypes(item) ==
    item.id # RuntimeId /\ item.enabled

DisableCandidate(item) ==
    item.id # RuntimeId /\ ~(TypeOf(item.id) \in excludeType) /\ item.enabled

\* the setEnabled(id, false, callback) calls of one oneKeyDisable run
disableCalls(list, n) ==
    LET filtered == SelectSeq(list, DisableCandidate)
        tailId == IF Len(filtered) # 0 THEN filtered[Len(filtered)].id ELSE NoId
    IN {Call("setEnabled", "oneKeyDisable", filtered[i].id, FALSE, tailId, n) :
          i \in 1..Len(filtered)}

oneKeyDisableCallback ==
    /\ inbox # <<>>
    /\ msg.type = "reply" /\ msg.api = "getAll" /\ msg.kind = "oneKeyDisable"
    /\ \E list \in ListsOf(msg.snap) :
          /\ calls' = calls \cup disableCalls(list, msg.n)
          /\ requested' = [requested EXCEPT ![msg.n] = {c.id : c \in disableCalls(list, msg.n)}]
          /\ last' = Did("oneKeyDisable", msg.n, list, disableCalls(list, msg.n), FALSE, FALSE)
    /\ inbox' = Tail(inbox)
    /\ UNCHANGED <<management, excludeType, eidDisabledSet, localStorage, h1Text,
                   ulItems, seq, nHeader, nItem, nExternal, roundTrip,
                   activeElement, probe, written>>

\* the completion callback of one setEnabled(item.id, false, ...)
disableDone_onSuccess ==
    /\ inbox # <<>>
    /\ msg.type = "reply" /\ msg.api = "setEnabled" /\ msg.kind = "oneKeyDisable"
    /\ eidDisabledSet' = IF msg.ok THEN SetAdd(eidDisabledSet, msg.id) ELSE eidDisabledSet
    /\ IF msg.ok /\ msg.id = msg.tailId
       THEN /\ localStorage' = writeToLocal(eidDisabledSet')
            /\ h1Text' = OneKeyRestore
       ELSE UNCHANGED <<localStorage, h1Text>>
    /\ inbox' = Tail(inbox)
    /\ written' = IF msg.ok /\ msg.id = msg.tailId THEN written \cup {msg.n} ELSE written
    /\ last' = Did("disableDone", msg.n, <<>>, {}, msg.ok /\ msg.id = msg.tailId, FALSE)
    /\ UNCHANGED <<management, excludeType, ulItems, calls, seq, nHeader,
                   nItem, nExternal, requested, roundTrip,
                   activeElement, probe>>

disableDone ==
    /\ inbox # <<>>
    /\ msg.type = "reply" /\ msg.api = "setEnabled" /\ msg.kind = "oneKeyDisable"
    /\ eidDisabledSet' = SetAdd(eidDisabledSet, msg.id)
    /\ IF msg.id = msg.tailId
       THEN /\ localStorage' = writeToLocal(eidDisabledSet')
            /\ h1Text' = OneKeyRestore
       ELSE UNCHANGED <<localStorage, h1Text>>
    /\ inbox' = Tail(inbox)
    /\ written' = IF msg.id = msg.tailId THEN written \cup {msg.n} ELSE written
    /\ last' = Did("disableDone", msg.n, <<>>, {}, msg.id = msg.tailId, FALSE)
    /\ UNCHANGED <<management, excludeType, ulItems, calls, seq, nHeader,
                   nItem, nExternal, requested, roundTrip,
                   activeElement, probe>>

\* the map of oneKeyRestore: ids the fetched list reports disabled
disabledExisting_all(list) ==
    {list[i].id : i \in {j \in 1..Len(list) :
        list[j].id # RuntimeId /\ ~(TypeOf(list[j].id) \in excludeType)}}

disabledExisting(list) ==
    {list[i].id : i \in {j \in 1..Len(list) :
        list[j].id # RuntimeId /\ ~(TypeOf(list[j].id) \in excludeType)
        /\ ~list[j].enabled}}

\* the setEnabled(id, true) calls of one oneKeyRestore run
restoreCalls_skipFirst(list, n) ==
    LET disabledRecently == eidDisabledSet
    IN {Call("setEnabled", "none", disabledRecently[i], TRUE, NoId, n) :
          i \in {j \in 2..Len(disabledRecently) :
                    disabledRecently[j] \in disabledExisting(list)}}

restoreCalls(list, n) ==
    LET disabledRecently == eidDisabledSet
    IN {Call("setEnabled", "none", disabledRecently[i], TRUE, NoId, n) :
          i \in {j \in 1..Len(disabledRecently) :
                    disabledRecently[j] \in disabledExisting(list)}}

oneKeyRestoreCallback ==
    /\ inbox # <<>>
    /\ msg.type = "reply" /\ msg.api = "getAll" /\ msg.kind = "oneKeyRestore"
    /\ \E list \in ListsOf(msg.snap) :
          /\ calls' = calls \cup restoreCalls(list, msg.n)
          /\ last' = Did("oneKeyRestore", msg.n, list, restoreCalls(list, msg.n), TRUE, FALSE)
    /\ eidDisabledSet' = clear(eidDisabledSet)
    /\ localStorage' = writeToLocal(eidDisabledSet')
    /\ h1Text' = OneKeyDisable
    /\ inbox' = Tail(inbox)
    /\ UNCHANGED <<management, excludeType, ulItems, seq, nHeader, nItem,
                   nExternal, requested, roundTrip,
                   activeElement, probe, written>>

\* ul click listener on the i-th li: chrome.management.get(id, ...)
ItemClick(i) ==
    /\ i \in 1..Len(ulItems)
    /\ nItem < MaxItemClicks /\ MoreInputs
    /\ nItem' = nItem + 1
    /\ seq' = seq + 1
    /\ calls' = calls \cup {Call("get", "click", ulItems[i].id, FALSE, NoId, seq + 1)}
    /\ roundTrip' = roundTripOnOther
    /\ last' = Step("itemClick")
    /\ UNCHANGED <<management, excludeType, eidDisabledSet, localStorage, h1Text,
                   ulItems, inbox, nHeader, nExternal, requested,
                   activeElement, probe, written>>

\* item => chrome.management.setEnabled(item.id, !item.enabled)
toggleCall_stale(item, n) ==
    LET lis == {i \in 1..Len(ulItems) : ulItems[i].id = item.id}
    IN Call("setEnabled", "none", item.id,
            IF lis = {} THEN ~item.enabled
            ELSE ~ulItems[CHOOSE i \in lis : TRUE].itemEnabled, NoId, n)

toggleCall(item, n) == Call("setEnabled", "none", item.id, ~item.enabled, NoId, n)

\* the callback of chrome.management.get; with no record found item is
\* undefined and reading item.id throws
getCallback ==
    /\ inbox # <<>>
    /\ msg.type = "reply" /\ msg.api = "get"
    /\ LET item == Item(msg.id, msg.snap[msg.id])
           reqs == IF msg.ok
                   THEN {toggleCall(item, msg.n)}
                   ELSE {}
       IN /\ calls' = calls \cup reqs
          /\ last' = Did("getCallback", msg.n, IF msg.ok THEN <<item>> ELSE <<>>, reqs,
                         FALSE, ~msg.ok)
    /\ inbox' = Tail(inbox)
    /\ UNCHANGED <<management, excludeType, eidDisabledSet, localStorage, h1Text,
                   ulItems, seq, nHeader, nItem, nExternal, requested, roundTrip,
                   activeElement, probe, written>>

\* toggleExtensionState(item): the first li of that id shows the item's state
RECURSIVE toggleExtensionState(_, _)
toggleExtensionState(items, item) ==
    IF items = <<>> THEN <<>>
    ELSE IF Head(items).id = item.id
         THEN <<renderExtensionState(Head(items), item)>> \o Tail(items)
         ELSE <<Head(items)>> \o toggleExtensionState(Tail(items), item)

\* onEnabled / onDisabled listeners
onEnabledChanged_forget ==
    /\ inbox # <<>> /\ msg.type \in {"onEnabled", "onDisabled"}
    /\ ulItems' = toggleExtensionState(ulItems, msg)
    /\ eidDisabledSet' = IF msg.enabled
                         THEN SelectSeq(eidDisabledSet, LAMBDA id : id # msg.id)
                         ELSE eidDisabledSet
    /\ inbox' = Tail(inbox)
    /\ last' = Step("toggleExtensionState")
    /\ UNCHANGED <<management, excludeType, localStorage, h1Text,
                   calls, seq, nHeader, nItem, nExternal, requested, roundTrip,
                   activeElement, probe, written>>

onEnabledChanged ==
    /\ inbox # <<>> /\ msg.type \in {"onEnabled", "onDisabled"}
    /\ ulItems' = toggleExtensionState(ulItems, msg)
    /\ inbox' = Tail(inbox)
    /\ last' = Step("toggleExtensionState")
    /\ UNCHANGED <<management, excludeType, eidDisabledSet, localStorage, h1Text,
                   calls, seq, nHeader, nItem, nExternal, requested, roundTrip,
                   activeElement, probe, written>>

\* onInstalled / onUninstalled listeners: renderExtensions()
onInstalledChanged_noRender ==
    /\ inbox # <<>> /\ msg.type \in {"onInstalled", "onUninstalled"}
    /\ inbox' = Tail(inbox)
    /\ last' = Step("onInstalled")
    /\ UNCHANGED <<management, excludeType, eidDisabledSet, localStorage, h1Text,
                   ulItems, calls, seq, nHeader, nItem, nExternal, requested,
                   roundTrip, activeElement, probe, written>>

onInstalledChanged ==
    /\ inbox # <<>> /\ msg.type \in {"onInstalled", "onUninstalled"}
    /\ calls' = calls \cup {renderExtensionsCall}
    /\ seq' = seq + 1
    /\ inbox' = Tail(inbox)
    /\ last' = Step("onInstalled")
    /\ UNCHANGED <<management, excludeType, eidDisabledSet, localStorage, h1Text,
                   ulItems, nHeader, nItem, nExternal, requested, roundTrip,
                   activeElement, probe, written>>

\* ------------------------------------------- changes made outside the popup
External(m, ev) ==
    /\ nExternal < MaxExternal /\ MoreInputs
    /\ nExternal' = nExternal + 1
    /\ management' = m
    /\ inbox' = Append(inbox, ev)
    /\ roundTrip' = roundTripOnOther
    /\ last' = Step("external")
    /\ UNCHANGED <<excludeType, eidDisabledSet, localStorage, h1Text, ulItems, calls,
                   seq, nHeader, nItem, requested,
                   activeElement, probe, written>>

ExternalEnable(id) ==
    /\ management[id] = "off"
    /\ External([management EXCEPT ![id] = "on"], Event("onEnabled", id, TRUE))

ExternalDisable(id) ==
    /\ management[id] = "on"
    /\ External([management EXCEPT ![id] = "off"], Event("onDisabled", id, FALSE))

ExternalInstall(id) ==
    /\ management[id] = "absent"
    /\ External([management EXCEPT ![id] = "on"], Event("onInstalled", id, TRUE))

ExternalUninstall(id) ==
    /\ management[id] # "absent"
    /\ External([management EXCEPT ![id] = "absent"],
                Event("onUninstalled", id, management[id] = "on"))

Next ==
    \/ \E c \in calls : ServeGetAll(c)
    \/ \E c \in calls : ServeGet(c)
    \/ \E c \in calls : ServeSetEnabled(c)
    \/ renderExtensionsCallback
    \/ HeaderClick
    \/ oneKeyDisableCallback
    \/ disableDone
    \/ oneKeyRestoreCallback
    \/ \E i \in 1..Len(ulItems) : ItemClick(i)
    \/ getCallback
    \/ onEnabledChanged
    \/ onInstalledChanged
    \/ \E id \in ExtIds : ExternalEnable(id)
    \/ \E id \in ExtIds : ExternalDisable(id)
    \/ \E id \in ExtIds : ExternalInstall(id)
    \/ \E id \in ExtIds : ExternalUninstall(id)

Spec == Init /\ [][Next]_vars

\* ------------------------------------------------------------ the keyboard
\* the % of JavaScript: the result has the sign of the dividend
jsRem(a, b) == IF a >= 0 THEN a % b ELSE 0 - ((0 - a) % b)

Max(a, b) == IF a >= b THEN a ELSE b

\* the index focusClickableElement(offset) computes into clickableElements
focusIndex_noClamp(index, offset, length) ==
    IF offset = 1
    THEN jsRem(index + offset, length)
    ELSE jsRem(index + offset + length, length)

focusIndex(index, offset, length) ==
    IF offset = 1
    THEN jsRem(index + offset, length)
    ELSE jsRem(Max(index, 0) + offset + length, length)

\* the offset the keydown listener passes for a key
Keys == {"Tab", "ShiftTab", "ArrowUp", "ArrowDown"}

OffsetOf(key) == IF key \in {"Tab", "ArrowDown"} THEN 1 ELSE -1

\* keydown listener: focusClickableElement(offset). activeElement is the
\* position of document.activeElement in [h1, li 1, ..., li n], -1 when it is
\* none of them; focus() has no effect on the h1 while it is not in the
\* document, which is until the first render
KeyDown(key) ==
    /\ LET clickableElements == <<0>> \o [i \in 1..Len(ulItems) |-> i]
           index == activeElement
           target == focusIndex(index, OffsetOf(key), Len(clickableElements))
       IN activeElement' = IF h1Text # "" THEN clickableElements[target + 1]
                           ELSE activeElement
    /\ last' = [Step("focusClickableElement") EXCEPT !.offset = OffsetOf(key)]
    /\ UNCHANGED <<management, excludeType, eidDisabledSet, localStorage, h1Text,
                   ulItems, calls, inbox, seq, nHeader, nItem, nExternal, probe,
                   requested, written, roundTrip>>

\* keyup listener: Enter clicks the element that has the focus
KeyUpEnter ==
    \/ activeElement = 0 /\ HeaderClick
    \/ \E i \in 1..Len(ulItems) : activeElement = i /\ ItemClick(i)

NextKeys ==
    \/ Next
    \/ \E key \in Keys : KeyDown(key)
    \/ KeyUpEnter

SpecKeys == Init /\ [][NextKeys]_vars

\* the popup's event loop runs the callback or listener of the message at the
\* head of the queue
Deliver ==
    \/ renderExtensionsCallback
    \/ oneKeyDisableCallback
    \/ disableDone
    \/ oneKeyRestoreCallback
    \/ getCallback
    \/ onEnabledChanged
    \/ onInstalledChanged

\* a first start: nothing was stored, so the header starts oneKeyDisable
InitFair == Init /\ localStorage = Null

\* the platform completes every setEnabled it was asked for, and the event
\* loop runs every callback that is due
SpecFair ==
    /\ InitFair /\ [][Next]_vars
    /\ WF_vars(\E c \in calls : ServeSetEnabled(c))
    /\ WF_vars(Deliver)

\* ------------------------------------------------------------ properties
\* the step being taken runs the callback of a getAll issued by handler `kind`
RunsFetchCallback(kind) ==
    /\ inbox # <<>> /\ msg.type = "reply" /\ msg.api = "getAll" /\ msg.kind = kind
    /\ inbox' = Tail(inbox)

\* the step being taken runs the completion callback of a oneKeyDisable request
RunsCompletion ==
    /\ inbox # <<>> /\ msg.type = "reply" /\ msg.api = "setEnabled"
    /\ msg.kind = "oneKeyDisable"
    /\ inbox' = Tail(inbox)

\* C1: right after the fetch callback of a bulk-restore has run, the in-memory
\* set is empty and the stored value decodes to the empty set, whatever the set
\* held before and whatever was requested, also while completions of an earlier
\* bulk-disable are still outstanding.
C1_RestoreClears ==
    [][RunsFetchCallback("oneKeyRestore")
         => Len(eidDisabledSet') = 0 /\ Decode(localStorage') = {}]_vars

\* C1 witness: a bulk-restore ran on a non-empty set while a disable request of
\* an earlier bulk-disable had not completed yet.
C1_Witness ==
    /\ last.op = "oneKeyRestore" /\ last.pre # {}
    /\ \E c \in calls : c.kind = "oneKeyDisable" /\ c.api = "setEnabled"

\* C2: the enable requests of one bulk-restore are exactly the ids that were
\* in the set when the fetch callback ran and that the fetched list reports
\* disabled, non-self and not of an excluded type.
C2_RestoreRequests ==
    last.op = "oneKeyRestore" =>
      /\ \A c \in last.reqs : c.api = "setEnabled" /\ c.enabled /\ c \in calls
      /\ {c.id : c \in last.reqs} =
            {id \in last.pre : \E item \in last.list :
                /\ item.id = id /\ ~item.enabled
                /\ id # RuntimeId /\ TypeOf(id) \notin excludeType}

\* C2 witness: a bulk-restore that skipped an id of the set reported enabled
\* and requested another one.
C2_Witness ==
    /\ last.op = "oneKeyRestore" /\ last.reqs # {}
    /\ \E id \in last.pre : \E item \in last.list : item.id = id /\ item.enabled

\* C3: the write (and header flip) of a bulk-disable happens only after the
\* last of its disables completed: no request of that run is outstanding and
\* the value written holds every id the run requested.
C3_WriteAfterAllCompleted ==
    (last.op = "disableDone" /\ last.wrote) =>
      /\ \A c \in calls : ~(c.kind = "oneKeyDisable" /\ c.n = last.n)
      /\ \A i \in 1..Len(inbox) :
            ~(inbox[i].type = "reply" /\ inbox[i].kind = "oneKeyDisable"
              /\ inbox[i].n = last.n)
      /\ requested[last.n] \subseteq Decode(localStorage)

\* C4: an id enters the set only in the completion callback of a bulk-disable
\* request for that id that the platform reports as succeeded.
C4_AddedOnlyOnConfirmedDisable ==
    [][\A id \in Ids :
          (id \in Range(eidDisabledSet') /\ id \notin Range(eidDisabledSet))
            => RunsCompletion /\ msg.id = id /\ msg.ok]_vars

\* the fetched snapshot holds no enabled extension besides self and excluded types
NoCandidates(snap) ==
    \A id \in Ids : snap[id] = "on" => id = RuntimeId \/ TypeOf(id) \in excludeType

\* C5: a bulk-disable whose fetched list has no enabled extension after
\* removing self and excluded types issues no request, writes nothing and
\* leaves the set and the header unchanged.
C5_EmptyDisableIsNoOp ==
    [][(RunsFetchCallback("oneKeyDisable") /\ NoCandidates(msg.snap))
         => /\ calls' = calls /\ localStorage' = localStorage
            /\ eidDisabledSet' = eidDisabledSet /\ h1Text' = h1Text
            /\ ~last'.wrote]_vars

\* C5 witness: a bulk-disable ran on a list that has a disabled extension and
\* nothing to disable.
C5_Witness ==
    /\ last.op = "oneKeyDisable"
    /\ \A item \in last.list : ~DisableCandidate(item)
    /\ \E item \in last.list : ~item.enabled

\* C6: the hosting extension's own id is never in the rendered list and no
\* setEnabled request is ever issued for it, even when the set loaded from
\* storage holds it.
C6_SelfExcluded ==
    /\ \A i \in 1..Len(ulItems) : ulItems[i].id # RuntimeId
    /\ \A c \in calls \cup last.reqs : c.api = "setEnabled" => c.id # RuntimeId

\* C6 witness: a bulk-restore ran on a set that held the own id, with a list
\* rendered.
C6_Witness ==
    /\ last.op = "oneKeyRestore" /\ RuntimeId \in last.pre
    /\ Len(ulItems) # 0

\* C7: no extension of an excluded type is in the rendered list, and no bulk
\* operation issues a setEnabled request for one.
C7_TypeExcluded ==
    /\ \A i \in 1..Len(ulItems) : TypeOf(ulItems[i].id) \notin excludeType
    /\ last.op \in {"oneKeyDisable", "oneKeyRestore"}
         => \A c \in last.reqs : TypeOf(c.id) \notin excludeType

\* C7 witness: a bulk operation issued requests although the fetched list held
\* an extension of an excluded type it could have acted on.
C7_Witness ==
    /\ last.reqs # {}
    /\ \/ /\ last.op = "oneKeyDisable"
          /\ \E item \in last.list : TypeOf(item.id) \in excludeType /\ item.enabled
       \/ /\ last.op = "oneKeyRestore"
          /\ \E item \in last.list :
                TypeOf(item.id) \in excludeType /\ ~item.enabled /\ item.id \in last.pre

\* C8: a bulk-disable started on an empty set whose completions were all
\* delivered, followed by a bulk-restore, with no other input in between,
\* leaves every extension's enabled flag as it was before the bulk-disable.
C8_RoundTrip ==
    (roundTrip.phase = "restore" /\ Quiet) => management = roundTrip.before

\* C8 witness: such a pair has finished, one extension was disabled and enabled
\* again and another one was disabled all along.
C8_Witness ==
    /\ roundTrip.phase = "restore" /\ Quiet
    /\ \E n \in 1..MaxSeq : requested[n] # {}
    /\ \E id \in ExtIds : roundTrip.before[id] = "off"

\* C9 as stated: once rendered, the header reads "restore" exactly when the
\* set is non-empty, in every state.
C9_HeaderTracksSet ==
    h1Text # "" => (h1Text = OneKeyRestore <=> Len(eidDisabledSet) # 0)

\* C9 amended: right after each step that writes the header (the render
\* callback, the bulk-restore callback, the completion callback of the tail
\* request) the header reads "restore" exactly when the set is non-empty.
C9_HeaderTracksSetWhenWritten ==
    (\/ last.op \in {"renderExtensions", "oneKeyRestore"}
     \/ last.op = "disableDone" /\ last.wrote)
      => /\ h1Text \in {OneKeyRestore, OneKeyDisable}
         /\ h1Text = OneKeyRestore <=> Len(eidDisabledSet) # 0

\* C9 witness: a render that found a non-empty set and showed "restore".
C9_Witness ==
    last.op = "renderExtensions" /\ last.pre # {} /\ h1Text = OneKeyRestore

\* ------------------------------------------ persistence adapter on its own
\* comma-free identifiers, the empty string included
StoredIds == SeqsUpTo({"a", "b"}, MaxIdLen)

\* a controller holding any set of them, in any insertion order
InitRT ==
    /\ eidDisabledSet \in {q \in SeqsUpTo(StoredIds, MaxSetSize) : NoDup(q)}
    /\ localStorage = Null
    /\ last = Step("holds")
    /\ management = NoSnap /\ excludeType = {} /\ h1Text = "" /\ ulItems = <<>>
    /\ calls = {} /\ inbox = <<>> /\ seq = 0 /\ nHeader = 0 /\ nItem = 0
    /\ nExternal = 0 /\ requested = <<>> /\ roundTrip = NotFollowed("idle")
    /\ activeElement = -1 /\ probe = NoProbe /\ written = {}

\* writeToLocal()
WriteRT ==
    /\ last.op = "holds"
    /\ localStorage' = writeToLocal(eidDisabledSet)
    /\ last' = Did("writeToLocal", 0, <<>>, {}, TRUE, FALSE)
    /\ UNCHANGED <<management, excludeType, eidDisabledSet, h1Text, ulItems, calls,
                   inbox, seq, nHeader, nItem, nExternal, requested, roundTrip,
                   activeElement, probe, written>>

\* a new controller (empty set) runs readFromLocal()
LoadRT ==
    /\ last.op = "writeToLocal"
    /\ eidDisabledSet' = readFromLocal(<<>>, localStorage)
    /\ last' = [last EXCEPT !.op = "readFromLocal"]
    /\ UNCHANGED <<management, excludeType, localStorage, h1Text, ulItems, calls,
                   inbox, seq, nHeader, nItem, nExternal, requested, roundTrip,
                   activeElement, probe, written>>

NextRT == WriteRT \/ LoadRT

SpecRT == InitRT /\ [][NextRT]_vars

SortNames == {<<"a">>, <<"A">>, <<"b">>, <<"a", "b">>}

SortItems == {[id |-> <<"x">>, name |-> nm, enabled |-> en] :
                 nm \in SortNames, en \in BOOLEAN}

InitSort ==
    /\ probe \in {[arg |-> l, flag |-> part, result |-> <<>>] :
                     l \in SeqsUpTo(SortItems, MaxListLen), part \in BOOLEAN}
    /\ last = Step("holds")
    /\ management = NoSnap /\ excludeType = {} /\ eidDisabledSet = <<>>
    /\ localStorage = Null /\ h1Text = "" /\ ulItems = <<>>
    /\ calls = {} /\ inbox = <<>> /\ seq = 0 /\ nHeader = 0 /\ nItem = 0
    /\ nExternal = 0 /\ requested = <<>> /\ roundTrip = NotFollowed("idle")
    /\ activeElement = -1 /\ written = {}

\* sortByASCII(list) with this.partition = flag
SortCall ==
    /\ last.op = "holds"
    /\ probe' = [probe EXCEPT !.result = sortByASCII(probe.arg, probe.flag)]
    /\ last' = Step("sortByASCII")
    /\ UNCHANGED <<management, excludeType, eidDisabledSet, localStorage, h1Text,
                   ulItems, calls, inbox, seq, nHeader, nItem, nExternal,
                   activeElement, requested, written, roundTrip>>

NextSort == SortCall

SpecSort == InitSort /\ [][NextSort]_vars

\* how often x occurs in s
Count(s, x) == Cardinality({i \in 1..Len(s) : s[i] = x})

IsPermutation(s, t) ==
    Len(s) = Len(t) /\ \A x \in Range(s) \cup Range(t) : Count(s, x) = Count(t, x)

NonDecreasing(s) ==
    \A i, j \in 1..Len(s) : i < j => localeCompare(s[i].name, s[j].name) <= 0

\* C11: sortByASCII returns a permutation of its input; with partition off it
\* is non-decreasing by name under the comparator; with partition on every
\* enabled record precedes every disabled one and each group is non-decreasing.
C11_Sorted ==
    last.op = "sortByASCII" =>
      LET out == probe.result
          en == {i \in 1..Len(out) : out[i].enabled}
          dis == {i \in 1..Len(out) : ~out[i].enabled}
      IN /\ IsPermutation(probe.arg, out)
         /\ ~probe.flag => NonDecreasing(out)
         /\ probe.flag =>
              /\ \A i \in en, j \in dis : i < j
              /\ \A i, j \in en : i < j => localeCompare(out[i].name, out[j].name) <= 0
              /\ \A i, j \in dis : i < j => localeCompare(out[i].name, out[j].name) <= 0

\* C11 witness: a partitioned sort of three records of both groups that had to
\* move records.
C11_Witness ==
    /\ last.op = "sortByASCII" /\ probe.flag /\ Len(probe.arg) >= 3
    /\ probe.result # probe.arg
    /\ \E i, j \in 1..Len(probe.arg) : probe.arg[i].enabled /\ ~probe.arg[j].enabled

\* ------------------------------------------- the icon choice on its own
IconSizes == {16, 32, 48, 64, 128}

\* icon lists in any order of sizes; the url tells the list position
IconLists ==
    {[i \in 1..Len(sz) |-> Icon(sz[i], i)] : sz \in SeqsUpTo(IconSizes, MaxIcons)}

InitIcon ==
    /\ probe \in {[arg |-> l, flag |-> FALSE, result |-> <<>>] : l \in IconLists}
    /\ last = Step("holds")
    /\ management = NoSnap /\ excludeType = {} /\ eidDisabledSet = <<>>
    /\ localStorage = Null /\ h1Text = "" /\ ulItems = <<>>
    /\ calls = {} /\ inbox = <<>> /\ seq = 0 /\ nHeader = 0 /\ nItem = 0
    /\ nExternal = 0 /\ requested = <<>> /\ roundTrip = NotFollowed("idle")
    /\ activeElement = -1 /\ written = {}

\* renderExtensionState(li, item) for an item with these icons
IconCall ==
    /\ last.op = "holds"
    /\ probe' = [probe EXCEPT !.result = iconInfoOf(<<"x">>, probe.arg)]
    /\ last' = Step("renderExtensionState")
    /\ UNCHANGED <<management, excludeType, eidDisabledSet, localStorage, h1Text,
                   ulItems, calls, inbox, seq, nHeader, nItem, nExternal,
                   activeElement, requested, written, roundTrip>>

NextIcon == IconCall

SpecIcon == InitIcon /\ [][NextIcon]_vars

\* C13: the icon chosen is the largest icon of the list whose size is below
\* 64, whatever the order of the list (checked for the lists that hold such an
\* icon); with no icons it is the default icon of size 32 keyed by the id.
C13_LargestIconBelowMax ==
    last.op = "renderExtensionState" =>
      LET icons == probe.arg
          small == {i \in 1..Len(icons) : icons[i].size < maxIconSize}
      IN /\ Len(icons) = 0 =>
              probe.result = Icon(32, <<"chrome://extension-icon", <<"x">>, 32, 0>>)
         /\ small # {} =>
              /\ \E i \in small : probe.result = icons[i]
              /\ \A i \in small : icons[i].size <= probe.result.size

\* ------------------------------------------------ properties of the popup
\* no platform call is in flight and no reply or notification waits
Quiescent == calls = {} /\ inbox = <<>>

\* C12: whenever no platform callback or notification is pending, the rendered
\* list holds exactly the installed extensions that are not the manager itself
\* and not of an excluded type, once each, and every rendered item shows the
\* enabled flag the platform has for it.
C12_RenderedMatchesPlatform ==
    Quiescent =>
      /\ {ulItems[i].id : i \in 1..Len(ulItems)} =
            {id \in Ids : /\ management[id] # "absent"
                          /\ id # RuntimeId
                          /\ TypeOf(id) \notin excludeType}
      /\ NoDup([i \in 1..Len(ulItems) |-> ulItems[i].id])
      /\ \A i \in 1..Len(ulItems) :
            ulItems[i].enabled = (management[ulItems[i].id] = "on")

\* C12 witness: all is delivered after an item was toggled and an extension
\* changed outside the popup, with two items rendered.
C12_Witness ==
    /\ Quiescent /\ nItem = 1 /\ nExternal = 1 /\ Len(ulItems) = 2

\* the step being taken runs the callback of chrome.management.get
RunsGetCallback ==
    /\ inbox # <<>> /\ msg.type = "reply" /\ msg.api = "get"
    /\ inbox' = Tail(inbox)

\* C14: activating a rendered item issues one re-fetch by that item's id and
\* no request yet; the callback of a re-fetch that found the record issues
\* exactly one enabled-state request, for that id, whose value is the negation
\* of the flag the re-fetch returned.
C14_ToggleNegatesFetched ==
    [][/\ nItem' = nItem + 1 =>
            \E i \in 1..Len(ulItems) :
               calls' = calls \cup {Call("get", "click", ulItems[i].id, FALSE, NoId, seq')}
       /\ RunsGetCallback /\ msg.ok =>
            \E c \in calls' \ calls :
               /\ calls' = calls \cup {c}
               /\ c.api = "setEnabled" /\ c.id = msg.id
               /\ c.enabled = (msg.snap[msg.id] = "off")]_vars

\* C14 witness: the request of an activation was issued for an item whose
\* record kept from the render has the flag the re-fetch no longer reports.
C14_Witness ==
    /\ last.op = "getCallback" /\ last.reqs # {} /\ last.reqs \subseteq calls
    /\ \E i \in 1..Len(ulItems) : \E c \in last.reqs :
          ulItems[i].id = c.id /\ c.enabled = ulItems[i].itemEnabled

\* C15: when the re-fetch of an activated item returns no record, the callback
\* issues no request, raises no error and leaves the set, the stored value
\* and the header label as they were.
C15_VanishedRecordHandled ==
    [][RunsGetCallback /\ ~msg.ok =>
          /\ calls' = calls
          /\ ~last'.threw
          /\ UNCHANGED <<eidDisabledSet, localStorage, h1Text>>]_vars

\* no callback of a bulk operation is pending: neither a fetch of
\* oneKeyDisable or oneKeyRestore nor a completion of a disable request
NoBulkCallbackPending ==
    /\ \A c \in calls : c.kind \notin {"oneKeyDisable", "oneKeyRestore"}
    /\ \A i \in 1..Len(inbox) :
          inbox[i].type = "reply" => inbox[i].kind \notin {"oneKeyDisable", "oneKeyRestore"}

\* C16: whenever no callback of a bulk operation is pending, the stored string
\* decodes to exactly the in-memory set.
C16_StoredAgreesWithSet ==
    NoBulkCallbackPending => Decode(localStorage) = Range(eidDisabledSet)

\* the oneKeyDisable runs that issued a disable request and have not written
Unwritten == {n \in 1..MaxSeq : requested[n] # {} /\ n \notin written}

\* C17: every oneKeyDisable run that issued a disable request eventually writes
\* the set, so that in the end no such run is left without its write; the
\* write is made once per run, by the completion callback of the tail request,
\* which also sets the header label to "restore", whatever else happens in
\* between.
C17_BulkDisableWritesOnce ==
    /\ (Unwritten # {}) ~> (Unwritten = {})
    /\ [][RunsCompletion /\ msg.id = msg.tailId =>
             /\ msg.n \in Unwritten
             /\ localStorage' = writeToLocal(eidDisabledSet')
             /\ h1Text' = OneKeyRestore]_vars

\* C17 witness: a run that requested two disables has written while an
\* extension changed outside the popup in the meantime.
C17_Witness ==
    /\ last.op = "disableDone" /\ last.wrote /\ last.n \in written
    /\ Cardinality(requested[last.n]) = 2
    /\ nExternal = 1

\* C18: a keydown step moves the focus circularly over [header, item 1, ...,
\* item n]: from position i forward to (i+1) mod (n+1) and backward to
\* (i-1) mod (n+1); with none of them focused, forward to the header and
\* backward to the last element; the index computed is within 0..n, also for
\* the empty list.
C18_FocusCircular ==
    [][last'.op = "focusClickableElement" /\ h1Text # "" =>
          LET n == Len(ulItems)
              i == activeElement
              forward == last'.offset = 1
          IN /\ focusIndex(i, last'.offset, n + 1) \in 0..n
             /\ activeElement' \in 0..n
             /\ i = -1 => activeElement' = IF forward THEN 0 ELSE n
             /\ i # -1 => activeElement' =
                             IF forward THEN (i + 1) % (n + 1) ELSE (i + n) % (n + 1)]_vars

\* C18 witness: with two items rendered, a backward step was taken with no
\* element focused and the last item has the focus.
C18_Witness ==
    /\ last.op = "focusClickableElement" /\ last.offset = -1
    /\ Len(ulItems) = 2 /\ activeElement = 2

\* the step being taken runs a listener of a platform notification
RunsListener ==
    /\ inbox # <<>> /\ msg.type # "reply"
    /\ inbox' = Tail(inbox)

\* the enabled-state requests the step being taken issues
NewRequests == {c \in calls' \ calls : c.api = "setEnabled"}

\* C19: at startup no enabled-state request is out; a render callback, a
\* focus step and the listener of a notification issue no enabled-state
\* request and leave the set and the stored value alone; an enabled-state
\* request is issued only by the callback of a fetch that a header activation
\* or an item activation started, and only such activations start those
\* fetches; the set and the stored value change only in callbacks of the bulk
\* operations.
C19_OnlyUserGestures ==
    /\ \A c \in calls : c.api = "getAll" /\ c.kind = "renderExtensions"
    /\ [][/\ (\/ RunsFetchCallback("renderExtensions")
              \/ RunsListener
              \/ last'.op = "focusClickableElement")
             => NewRequests = {} /\ UNCHANGED <<eidDisabledSet, localStorage>>
          /\ NewRequests # {}
             => \/ RunsGetCallback
                \/ RunsFetchCallback("oneKeyDisable")
                \/ RunsFetchCallback("oneKeyRestore")
          /\ (\E c \in calls' \ calls : c.kind # "renderExtensions" /\ c.api # "setEnabled")
             => nHeader' = nHeader + 1 \/ nItem' = nItem + 1
          /\ (eidDisabledSet' # eidDisabledSet \/ localStorage' # localStorage)
             => RunsCompletion \/ RunsFetchCallback("oneKeyRestore")]_vars

\* C19 witness: the listener of a notification about a change made outside the
\* popup has run while the set was not empty.
C19_Witness ==
    /\ last.op = "toggleExtensionState" /\ nExternal = 1
    /\ Len(eidDisabledSet) # 0

====
